---- MODULE Spec2Model ----
(***************************************************************************)
(* Kenchi outlier detectors: the fit / anomaly_score / predict lifecycle   *)
(* of FastABOD, KernelDensityOutlierDetector, GaussianOutlierDetector,     *)
(* GaussianMixtureOutlierDetector and VMFOutlierDetector.                  *)
(*                                                                         *)
(* Samples have one feature; a sample matrix is a sequence of integers.    *)
(* Floating-point values are exact rationals <<n, d>> with d > 0, extended *)
(* by NaN = <<0, 0>> and +Inf = <<1, 0>> (rounding is not modelled).       *)
(***************************************************************************)
EXTENDS Integers, Sequences, FiniteSets, TLC

MaxVal  == 1    \* sample values range over -1 .. MaxVal
MaxRows == 3    \* a training matrix has at most MaxRows rows
FprDen  == 1    \* hyperparameter grid: fpr = f / FprDen, f in -1 .. FprDen + 1
MaxJobs == 2    \* n_jobs ranges over -1 and 1 .. MaxJobs
MaxQueryRows == 2    \* a scored matrix has at most MaxQueryRows rows

Vals   == -1 .. MaxVal
\* a scored row is a value training rows take, or one beyond them all
QVals  == {0, MaxVal + 1}

RECURSIVE SeqsUpTo(_, _)
SeqsUpTo(S, n) == IF n = 0 THEN {<< >>}
                  ELSE LET T == SeqsUpTo(S, n - 1)
                       IN  T \cup {Append(t, v) : t \in {u \in T : Len(u) = n - 1}, v \in S}

\* training matrices, rows in non-decreasing order (the row order of a
\* training matrix only orders the in-sample score vector)
TrainInputs == {X \in SeqsUpTo(Vals, MaxRows) :
                    \A i \in 1 .. Len(X) - 1 : X[i] <= X[i + 1]}
\* a scoring call is given one row, or a matrix with no rows
QueryInputs == SeqsUpTo(QVals, 1)

-----------------------------------------------------------------------------
(* Exact arithmetic standing for float64 *)

Abs(x) == IF x < 0 THEN -x ELSE x

RECURSIVE GCD(_, _)
GCD(a, b) == IF b = 0 THEN a ELSE GCD(b, a % b)

NaN == <<0, 0>>
Inf == <<1, 0>>
IsNaN(a) == a = NaN
IsInf(a) == a = Inf

Rat(n, d) == IF d = 0 THEN (IF n = 0 THEN NaN ELSE Inf)
             ELSE LET g == GCD(Abs(n), Abs(d))
                      s == IF d < 0 THEN -1 ELSE 1
                  IN  <<(s * n) \div g, (s * d) \div g>>
Int2R(i) == <<i, 1>>
Zero == Int2R(0)
One  == Int2R(1)

RAdd(a, b) == IF IsNaN(a) \/ IsNaN(b) THEN NaN
              ELSE IF IsInf(a) \/ IsInf(b) THEN Inf
              ELSE LET g == GCD(a[2], b[2])
                   IN  Rat(a[1] * (b[2] \div g) + b[1] * (a[2] \div g),
                           (a[2] \div g) * b[2])
RNeg(a)    == IF a[2] = 0 THEN a ELSE <<-a[1], a[2]>>
RSub(a, b) == RAdd(a, RNeg(b))
RMul(a, b) == IF IsNaN(a) \/ IsNaN(b) THEN NaN
              ELSE Rat(a[1] * b[1], a[2] * b[2])
\* IEEE division: 0/0 is NaN (the "invalid" operation), x/0 is Inf
RDiv(a, b) == IF IsNaN(a) \/ IsNaN(b) THEN NaN
              ELSE Rat(a[1] * b[2], a[2] * b[1])
\* a > b as floats compare: any comparison with NaN is false
RGt(a, b)  == /\ ~IsNaN(a) /\ ~IsNaN(b)
              /\ IF IsInf(b) THEN FALSE
                 ELSE IF IsInf(a) THEN TRUE
                 ELSE a[1] * b[2] > b[1] * a[2]
RLt(a, b)  == RGt(b, a)

RECURSIVE RSum(_)
RSum(s) == IF s = << >> THEN Zero ELSE RAdd(Head(s), RSum(Tail(s)))
RMean(s) == RDiv(RSum(s), Int2R(Len(s)))
\* np.var with ddof = 0
RVar(s) == LET m == RMean(s)
           IN  RMean([i \in 1 .. Len(s) |-> RMul(RSub(s[i], m), RSub(s[i], m))])

HasNaN(s) == \E i \in 1 .. Len(s) : IsNaN(s[i])

-----------------------------------------------------------------------------
(* Optional attributes: << >> is "attribute not set", <<v>> holds v *)
Absent  == << >>
Some(v) == <<v>>
Has(a)  == a # Absent
Get(a)  == a[1]

(* Results of a call: a returned value or a raised exception *)
Ok(v)     == [kind |-> "ok", val |-> v]
Raise(e)  == [kind |-> e, val |-> << >>]
Raised(r) == r.kind # "ok"

-----------------------------------------------------------------------------
(* sklearn.utils.check_array: a matrix with no rows is rejected (the sample  *)
(* values of this model are finite numbers, so no other check can fail)      *)
check_array(X) == IF Len(X) = 0 THEN Raise("ValueError") ELSE Ok(X)

(* check_is_fitted(self, attr): NotFittedError unless the attribute is set *)
check_is_fitted(attr) == Has(attr)

(* np.percentile(a, 100 * q), linear interpolation between the two closest *)
(* ranks; a percentile outside [0, 100] is a ValueError; a NaN in a gives   *)
(* NaN                                                                      *)
percentile_q(a, q) ==
    IF ~IsNaN(q) /\ (RLt(q, Zero) \/ RGt(q, One)) THEN Raise("ValueError")
    ELSE IF IsNaN(q) \/ HasNaN(a) THEN Ok(NaN)
    ELSE LET srt  == SortSeq(a, RLt)
             n    == Len(a)
             pos  == RMul(q, Int2R(n - 1))
             lo   == pos[1] \div pos[2]
             hi   == IF lo + 1 > n - 1 THEN n - 1 ELSE lo + 1
             frac == RSub(pos, Int2R(lo))
         IN  Ok(RAdd(srt[lo + 1], RMul(frac, RSub(srt[hi + 1], srt[lo + 1]))))

\* the rank taken at 100 * fpr
percentile_of_fpr(a, fpr) == percentile_q(a, fpr)

\* np.percentile(a, 100.0 * (1.0 - self.fpr))
percentile(a, fpr) == percentile_q(a, RSub(One, fpr))

(* NearestNeighbors.kneighbors: the k nearest training rows of x among the  *)
(* candidate indices, nearest first, ties by index                          *)
Nearest(fit_X, cand, x, k) ==
    SubSeq(SortSeq(cand, LAMBDA i, j :
               \/ Abs(fit_X[i] - x) < Abs(fit_X[j] - x)
               \/ (Abs(fit_X[i] - x) = Abs(fit_X[j] - x) /\ i < j)), 1, k)

\* kneighbors(X): needs n_neighbors <= n_samples_fit
kneighbors(knn, X) ==
    LET n == Len(knn.fit_X)
    IN  IF knn.n_neighbors > n THEN Raise("ValueError")
        ELSE Ok([r \in 1 .. Len(X) |->
                    Nearest(knn.fit_X, [j \in 1 .. n |-> j], X[r], knn.n_neighbors)])

\* kneighbors(None): the query is the training set and a row is not its own
\* neighbour; needs n_neighbors < n_samples_fit
kneighborsNone(knn) ==
    LET n == Len(knn.fit_X)
    IN  IF knn.n_neighbors >= n THEN Raise("ValueError")
        ELSE Ok([r \in 1 .. n |->
                    Nearest(knn.fit_X,
                            [j \in 1 .. n - 1 |-> IF j < r THEN j ELSE j + 1],
                            knn.fit_X[r], knn.n_neighbors)])

(* itertools.combinations(range(1, k + 1), 2), in its order *)
RECURSIVE combinations(_, _)
combinations(a, k) == IF a >= k THEN << >>
                      ELSE [b \in 1 .. k - a |-> <<a, a + b>>] \o combinations(a + 1, k)

(* _abof: for every row p, the variance over neighbour pairs of              *)
(* (pa @ pb) / (pa @ pa) / (pb @ pb); under np.errstate(invalid='raise') a   *)
(* 0/0 raises FloatingPointError                                            *)
abof_terms(p, ind_p, fit_X) ==
    LET d  == [a \in 1 .. Len(ind_p) |-> fit_X[ind_p[a]] - p]
        cs == combinations(1, Len(ind_p))
    IN  [c \in 1 .. Len(cs) |->
            LET pa == d[cs[c][1]]
                pb == d[cs[c][2]]
            IN  RDiv(RDiv(Int2R(pa * pb), Int2R(pa * pa)), Int2R(pb * pb))]

\* _abof without np.errstate(invalid='raise'): a 0/0 term stays nan
abof_unchecked(X, ind, fit_X) ==
    Ok([r \in 1 .. Len(X) |-> RVar(abof_terms(X[r], ind[r], fit_X))])

abof(X, ind, fit_X) ==
    LET terms == [r \in 1 .. Len(X) |-> abof_terms(X[r], ind[r], fit_X)]
    IN  IF \E r \in 1 .. Len(X) : HasNaN(terms[r]) THEN Raise("FloatingPointError")
        ELSE Ok([r \in 1 .. Len(X) |-> RVar(terms[r])])

(* sklearn.utils.gen_even_slices(n, n_packs): <<start, end>> pairs, 1-based *)
(* inclusive; n_packs < 1 is a ValueError                                    *)
RECURSIVE even_slices(_, _, _, _)
even_slices(n, n_packs, pack_num, start) ==
    IF pack_num >= n_packs THEN << >>
    ELSE LET this_n == (n \div n_packs) + (IF pack_num < n % n_packs THEN 1 ELSE 0)
         IN  IF this_n > 0
             THEN <<<<start, start + this_n - 1>>>>
                      \o even_slices(n, n_packs, pack_num + 1, start + this_n)
             ELSE even_slices(n, n_packs, pack_num + 1, start)

gen_even_slices(n, n_packs) ==
    IF n_packs < 1 THEN Raise("ValueError") ELSE Ok(even_slices(n, n_packs, 0, 1))

-----------------------------------------------------------------------------
(* Hyperparameters.  hp is the instance's parameter attributes, with the   *)
(* family it was constructed as.                                            *)

Families == {"FastABOD", "KernelDensity", "Gaussian", "GaussianMixture", "VMF"}

VALID_KERNELS ==
    {"gaussian", "tophat", "epanechnikov", "exponential", "linear", "cosine"}
VALID_COVARIANCE_TYPES == {"full", "tied", "diag", "spherical"}

\* the values a caller passes: the domain's boundaries and one step outside
FprIn   == {Rat(f, FprDen) : f \in -1 .. FprDen + 1}
UnitIn  == {Rat(-1, FprDen), Zero, Rat(FprDen + 1, FprDen)}
TolIn   == {Rat(-1, FprDen), Zero}

ParamsIn(fam) ==
    CASE fam = "FastABOD" ->
           [family : {fam}, fpr : FprIn, n_jobs : {1}, n_neighbors : {1, 2},
            p : {0, 1}]
      [] fam = "KernelDensity" ->
           [family : {fam}, bandwidth : {Zero, One}, fpr : FprIn,
            kernel : {"cosine", "sigmoid"}]
      [] fam = "Gaussian" ->
           [family : {fam}, alpha : UnitIn, fpr : FprIn, max_iter : {0, 1},
            tol : TolIn]
      [] fam = "GaussianMixture" ->
           [family : {fam}, covariance_type : {"spherical", "ball"},
            fpr : FprIn, max_iter : {0, 1}, n_components : {0, 1}, tol : TolIn]
      [] fam = "VMF" ->
           [family : {fam}, assume_normalized : BOOLEAN, fpr : FprIn]

FprOutside(h) == RLt(h.fpr, Zero) \/ RLt(One, h.fpr)

\* check_params with FastABOD's test written n_neighbors < 1
check_params_lax(h) ==
    CASE h.family = "FastABOD" ->
           ~FprOutside(h) /\ ~(h.n_neighbors < 1) /\ ~(h.p < 1)
      [] h.family = "KernelDensity" ->
           RGt(h.bandwidth, Zero) /\ ~FprOutside(h) /\ h.kernel \in VALID_KERNELS
      [] h.family = "Gaussian" ->
           /\ ~(RLt(h.alpha, Zero) \/ RLt(One, h.alpha))
           /\ ~FprOutside(h) /\ ~(h.max_iter <= 0) /\ ~RLt(h.tol, Zero)
      [] h.family = "GaussianMixture" ->
           /\ h.covariance_type \in VALID_COVARIANCE_TYPES
           /\ ~FprOutside(h) /\ ~(h.max_iter <= 0) /\ ~(h.n_components <= 0)
           /\ ~RLt(h.tol, Zero)
      [] h.family = "VMF" -> ~FprOutside(h)

(* check_params of each class: TRUE when it returns, FALSE when it raises  *)
(* ValueError                                                               *)
check_params(h) ==
    CASE h.family = "FastABOD" ->
           ~FprOutside(h) /\ ~(h.n_neighbors <= 1) /\ ~(h.p < 1)
      [] h.family = "KernelDensity" ->
           RGt(h.bandwidth, Zero) /\ ~FprOutside(h) /\ h.kernel \in VALID_KERNELS
      [] h.family = "Gaussian" ->
           /\ ~(RLt(h.alpha, Zero) \/ RLt(One, h.alpha))
           /\ ~FprOutside(h) /\ ~(h.max_iter <= 0) /\ ~RLt(h.tol, Zero)
      [] h.family = "GaussianMixture" ->
           /\ h.covariance_type \in VALID_COVARIANCE_TYPES
           /\ ~FprOutside(h) /\ ~(h.max_iter <= 0) /\ ~(h.n_components <= 0)
           /\ ~RLt(h.tol, Zero)
      [] h.family = "VMF" -> ~FprOutside(h)

-----------------------------------------------------------------------------
(* Fitted attributes.  model is the family's estimator attribute: _knn,    *)
(* _kde, _glasso, _gmm, or (VMF) _normalizer.                              *)

AttrNames == {"model", "mean_direction_", "y_score_", "threshold_",
              "Y_score_", "feature_wise_threshold_"}
NoAttrs == [f \in AttrNames |-> Absent]

(* --- the numeric backend, one feature ---------------------------------- *)

\* KernelDensity.score_samples stands for the log-density; the model keeps
\* its order with the number of training rows within one bandwidth of x
kde_score_samples(kde, X) ==
    [r \in 1 .. Len(X) |->
        Int2R(Cardinality({i \in 1 .. Len(kde.fit_X) :
            ~RGt(Int2R(Abs(kde.fit_X[i] - X[r])), kde.bandwidth)}))]

\* GraphLasso.fit: location_ is the mean, precision_ the inverse variance;
\* a singular covariance does not fit
glasso_fit(X) ==
    LET Xr == [i \in 1 .. Len(X) |-> Int2R(X[i])]
        v  == RVar(Xr)
    IN  IF v = Zero THEN Raise("FloatingPointError")
        ELSE Ok([location_ |-> RMean(Xr), precision_ |-> RDiv(One, v)])

glasso_mahalanobis(g, X) ==
    [r \in 1 .. Len(X) |->
        LET c == RSub(Int2R(X[r]), g.location_) IN RMul(RMul(c, c), g.precision_)]

\* GaussianMixture.fit with one component: its mean; score_samples stands
\* for the log-likelihood, here minus the squared distance to the mean
gmm_fit(X) == [mean_ |-> RMean([i \in 1 .. Len(X) |-> Int2R(X[i])])]

gmm_score_samples(g, X) ==
    [r \in 1 .. Len(X) |->
        LET c == RSub(Int2R(X[r]), g.mean_) IN RNeg(RMul(c, c))]

\* Normalizer().transform: each row divided by its L2 norm (a zero row stays)
normalize(X) == [r \in 1 .. Len(X) |->
                    IF X[r] > 0 THEN 1 ELSE IF X[r] < 0 THEN -1 ELSE 0]

\* chi2.ppf(1 - fpr, *chi2.fit(y)): what the fitted quantile may be.  The
\* fit is an optimiser's result, so any finite candidate can come out for
\* 0 <= q < 1; ppf(1) is +inf and ppf outside [0, 1] is nan.  Non-finite
\* data raises in scipy versions that check it and gives nan otherwise.
Chi2Finite == {Int2R(c) : c \in 0 .. 1}
chi2_threshold(y, fpr) ==
    LET q == RSub(One, fpr)
    IN  IF HasNaN(y) THEN {Raise("ValueError"), Ok(NaN)}
        ELSE IF RLt(q, Zero) \/ RGt(q, One) THEN {Ok(NaN)}
        ELSE IF q = One THEN {Ok(Inf)}
        ELSE {Ok(c) : c \in Chi2Finite}

-----------------------------------------------------------------------------
(* anomaly_score of each family.  arg is Absent for X = None, Some(X)       *)
(* otherwise.  The pandas decorators pass an ndarray through unchanged.     *)

RECURSIVE concatenate(_)
concatenate(parts) == IF parts = << >> THEN << >>
                      ELSE Head(parts) \o concatenate(Tail(parts))

Negate(v) == [i \in 1 .. Len(v) |-> RNeg(v[i])]

\* the cached in-sample scores; reading an attribute never set is an
\* AttributeError
Cached(attr) == IF Has(attr) THEN Ok(Get(attr)) ELSE Raise("AttributeError")

FastABOD_scores(h, knn, X, ind) ==
    LET sl == gen_even_slices(Len(X), h.n_jobs)
    IN  IF Raised(sl) THEN sl
        ELSE LET result == [s \in 1 .. Len(sl.val) |->
                     abof(SubSeq(X, sl.val[s][1], sl.val[s][2]),
                          SubSeq(ind, sl.val[s][1], sl.val[s][2]), knn.fit_X)]
             IN  IF \E s \in 1 .. Len(result) : Raised(result[s])
                 THEN Raise("ValueError")
                 ELSE IF Len(result) = 0 THEN Raise("ValueError")
                 ELSE Ok(Negate(concatenate([s \in 1 .. Len(result) |-> result[s].val])))

FastABOD_anomaly_score(h, a, arg) ==
    IF ~check_is_fitted(a.model) THEN Raise("NotFittedError")
    ELSE LET knn == Get(a.model)
         IN  IF arg = Absent
             THEN LET ind == kneighborsNone(knn)
                  IN  IF Raised(ind) THEN ind
                      ELSE FastABOD_scores(h, knn, knn.fit_X, ind.val)
             ELSE LET X == check_array(Get(arg))
                  IN  IF Raised(X) THEN X
                      ELSE LET ind == kneighbors(knn, X.val)
                           IN  IF Raised(ind) THEN ind
                               ELSE FastABOD_scores(h, knn, X.val, ind.val)

\* anomaly_score without its check_is_fitted line
KernelDensity_anomaly_score_unchecked(h, a, arg) ==
    IF arg = Absent THEN Cached(a.y_score_)
    ELSE LET X == check_array(Get(arg))
         IN  IF Raised(X) THEN X
             ELSE IF ~Has(a.model) THEN Raise("AttributeError")
             ELSE Ok(Negate(kde_score_samples(Get(a.model), X.val)))

KernelDensity_anomaly_score(h, a, arg) ==
    IF ~check_is_fitted(a.model) THEN Raise("NotFittedError")
    ELSE IF arg = Absent THEN Cached(a.y_score_)
    ELSE LET X == check_array(Get(arg))
         IN  IF Raised(X) THEN X
             ELSE Ok(Negate(kde_score_samples(Get(a.model), X.val)))

Gaussian_anomaly_score(h, a, arg) ==
    IF ~check_is_fitted(a.model) THEN Raise("NotFittedError")
    ELSE IF arg = Absent THEN Cached(a.y_score_)
    ELSE LET X == check_array(Get(arg))
         IN  IF Raised(X) THEN X
             ELSE Ok(glasso_mahalanobis(Get(a.model), X.val))

\* 0.5 * (x - location)^2 * precision; the additive term
\* 0.5 * log(2 pi / precision), the same for every row, is left out
Gaussian_feature_wise_anomaly_score(h, a, arg) ==
    IF ~check_is_fitted(a.model) THEN Raise("NotFittedError")
    ELSE IF arg = Absent THEN Cached(a.Y_score_)
    ELSE LET X == check_array(Get(arg))
         IN  IF Raised(X) THEN X
             ELSE LET m == glasso_mahalanobis(Get(a.model), X.val)
                  IN  Ok([r \in 1 .. Len(m) |-> RMul(Rat(1, 2), m[r])])

GaussianMixture_anomaly_score(h, a, arg) ==
    IF ~check_is_fitted(a.model) THEN Raise("NotFittedError")
    ELSE IF arg = Absent THEN Cached(a.y_score_)
    ELSE LET X == check_array(Get(arg))
         IN  IF Raised(X) THEN X
             ELSE Ok(Negate(gmm_score_samples(Get(a.model), X.val)))

\* check_is_fitted(self, '_normalizer'), also when assume_normalized
VMF_anomaly_score(h, a, arg) ==
    IF ~check_is_fitted(a.model) THEN Raise("NotFittedError")
    ELSE IF arg = Absent THEN Cached(a.y_score_)
    ELSE LET X == check_array(Get(arg))
         IN  IF Raised(X) THEN X
             ELSE IF ~Has(a.mean_direction_) THEN Raise("AttributeError")
             ELSE LET Xn == IF ~h.assume_normalized THEN normalize(X.val) ELSE X.val
                  IN  Ok([r \in 1 .. Len(Xn) |->
                            RSub(One, RMul(Int2R(Xn[r]), Get(a.mean_direction_)))])

anomaly_score(h, a, arg) ==
    CASE h.family = "FastABOD"        -> FastABOD_anomaly_score(h, a, arg)
      [] h.family = "KernelDensity"   -> KernelDensity_anomaly_score(h, a, arg)
      [] h.family = "Gaussian"        -> Gaussian_anomaly_score(h, a, arg)
      [] h.family = "GaussianMixture" -> GaussianMixture_anomaly_score(h, a, arg)
      [] h.family = "VMF"             -> VMF_anomaly_score(h, a, arg)

(* DetectorMixin.predict *)
Labels(scores, threshold) ==
    [i \in 1 .. Len(scores) |-> IF RGt(scores[i], threshold) THEN 1 ELSE 0]

predict(h, a, X) ==
    IF ~check_is_fitted(a.threshold_) THEN Raise("NotFittedError")
    ELSE LET sc == anomaly_score(h, a, Some(X))
         IN  IF Raised(sc) THEN sc ELSE Ok(Labels(sc.val, Get(a.threshold_)))

-----------------------------------------------------------------------------
(* fit of each family: the set of possible outcomes of self.fit(X) from    *)
(* attributes a.  An outcome is the attributes when the call ends, what it  *)
(* returned or raised, and the attributes the call assigned.  Statements    *)
(* run in the source's order, an exception ends the call where it is        *)
(* raised.                                                                  *)

Outcome(a, r, w) == [attrs |-> a, ret |-> r, wrote |-> w]
Self == Ok(<< >>)    \* "return self"

FastABOD_fit(h, a, X0) ==
    LET X == check_array(X0)
    IN  IF Raised(X) THEN {Outcome(a, X, {})}
        ELSE
        LET a1 == [a EXCEPT !.model =
                       Some([fit_X |-> X.val, n_neighbors |-> h.n_neighbors])]
            ys == FastABOD_anomaly_score(h, a1, Absent)
        IN  IF Raised(ys) THEN {Outcome(a1, ys, {"model"})}
            ELSE
            LET a2 == [a1 EXCEPT !.y_score_ = Some(ys.val)]
                th == percentile(ys.val, h.fpr)
            IN  IF Raised(th) THEN {Outcome(a2, th, {"model", "y_score_"})}
                ELSE {Outcome([a2 EXCEPT !.threshold_ = Some(th.val)], Self,
                              {"model", "y_score_", "threshold_"})}

\* fit that keeps an y_score_ it already has
KernelDensity_fit_stale(h, a, X0) ==
    LET X == check_array(X0)
    IN  IF Raised(X) THEN {Outcome(a, X, {})}
        ELSE
        LET a1 == [a EXCEPT !.model =
                       Some([fit_X |-> X.val, bandwidth |-> h.bandwidth])]
            ys == KernelDensity_anomaly_score(h, a1, Some(X.val))
        IN  IF Raised(ys) THEN {Outcome(a1, ys, {"model"})}
            ELSE
            LET a2 == IF Has(a1.y_score_) THEN a1
                      ELSE [a1 EXCEPT !.y_score_ = Some(ys.val)]
                th == percentile(Get(a2.y_score_), h.fpr)
            IN  IF Raised(th) THEN {Outcome(a2, th, {"model", "y_score_"})}
                ELSE {Outcome([a2 EXCEPT !.threshold_ = Some(th.val)], Self,
                              {"model", "y_score_", "threshold_"})}

KernelDensity_fit(h, a, X0) ==
    LET X == check_array(X0)
    IN  IF Raised(X) THEN {Outcome(a, X, {})}
        ELSE
        LET a1 == [a EXCEPT !.model =
                       Some([fit_X |-> X.val, bandwidth |-> h.bandwidth])]
            ys == KernelDensity_anomaly_score(h, a1, Some(X.val))
        IN  IF Raised(ys) THEN {Outcome(a1, ys, {"model"})}
            ELSE
            LET a2 == [a1 EXCEPT !.y_score_ = Some(ys.val)]
                th == percentile(ys.val, h.fpr)
            IN  IF Raised(th) THEN {Outcome(a2, th, {"model", "y_score_"})}
                ELSE {Outcome([a2 EXCEPT !.threshold_ = Some(th.val)], Self,
                              {"model", "y_score_", "threshold_"})}

Gaussian_fit(h, a, X0) ==
    LET X == check_array(X0)
    IN  IF Raised(X) THEN {Outcome(a, X, {})}
        ELSE
        LET g == glasso_fit(X.val)
        IN  IF Raised(g) THEN {Outcome(a, g, {})}
            ELSE
            LET a1 == [a EXCEPT !.model = Some(g.val)]
                ys == Gaussian_anomaly_score(h, a1, Some(X.val))
            IN  IF Raised(ys) THEN {Outcome(a1, ys, {"model"})}
                ELSE
                LET a2 == [a1 EXCEPT !.y_score_ = Some(ys.val)]
                IN  UNION {
                      IF Raised(th) THEN {Outcome(a2, th, {"model", "y_score_"})}
                      ELSE
                      LET a3 == [a2 EXCEPT !.threshold_ = Some(th.val)]
                          w3 == {"model", "y_score_", "threshold_"}
                          Ys == Gaussian_feature_wise_anomaly_score(h, a3, Some(X.val))
                      IN  IF Raised(Ys) THEN {Outcome(a3, Ys, w3)}
                          ELSE
                          LET a4 == [a3 EXCEPT !.Y_score_ = Some(Ys.val)]
                              ft == percentile(Ys.val, h.fpr)
                          IN  IF Raised(ft)
                              THEN {Outcome(a4, ft, w3 \cup {"Y_score_"})}
                              ELSE {Outcome(
                                      [a4 EXCEPT !.feature_wise_threshold_ = Some(<<ft.val>>)],
                                      Self,
                                      w3 \cup {"Y_score_", "feature_wise_threshold_"})}
                      : th \in chi2_threshold(ys.val, h.fpr)}

GaussianMixture_fit(h, a, X0) ==
    LET X == check_array(X0)
    IN  IF Raised(X) THEN {Outcome(a, X, {})}
        ELSE
        LET a1 == [a EXCEPT !.model = Some(gmm_fit(X.val))]
            ys == GaussianMixture_anomaly_score(h, a1, Some(X.val))
        IN  IF Raised(ys) THEN {Outcome(a1, ys, {"model"})}
            ELSE
            LET a2 == [a1 EXCEPT !.y_score_ = Some(ys.val)]
                th == percentile(ys.val, h.fpr)
            IN  IF Raised(th) THEN {Outcome(a2, th, {"model", "y_score_"})}
                ELSE {Outcome([a2 EXCEPT !.threshold_ = Some(th.val)], Self,
                              {"model", "y_score_", "threshold_"})}

VMF_fit(h, a, X0) ==
    LET X == check_array(X0)
    IN  IF Raised(X) THEN {Outcome(a, X, {})}
        ELSE
        LET a1 == IF ~h.assume_normalized
                  THEN [a EXCEPT !.model = Some([norm |-> "l2"])] ELSE a
            w1 == IF ~h.assume_normalized THEN {"model"} ELSE {}
            Xn == IF ~h.assume_normalized THEN normalize(X.val) ELSE X.val
            mean == RMean([i \in 1 .. Len(Xn) |-> Int2R(Xn[i])])
            \* np.linalg.norm(mean) of one feature is |mean|; an array
            \* divided by 0.0 is nan with a warning, not an exception
            a2 == [a1 EXCEPT !.mean_direction_ =
                       Some(RDiv(mean, IF RLt(mean, Zero) THEN RNeg(mean) ELSE mean))]
            w2 == w1 \cup {"mean_direction_"}
            ys == VMF_anomaly_score(h, a2, Some(Xn))
        IN  IF Raised(ys) THEN {Outcome(a2, ys, w2)}
            ELSE
            LET a3 == [a2 EXCEPT !.y_score_ = Some(ys.val)]
            IN  {IF Raised(th) THEN Outcome(a3, th, w2 \cup {"y_score_"})
                 ELSE Outcome([a3 EXCEPT !.threshold_ = Some(th.val)], Self,
                              w2 \cup {"y_score_", "threshold_"})
                 : th \in chi2_threshold(ys.val, h.fpr)}

fit(h, a, X) ==
    CASE h.family = "FastABOD"        -> FastABOD_fit(h, a, X)
      [] h.family = "KernelDensity"   -> KernelDensity_fit(h, a, X)
      [] h.family = "Gaussian"        -> Gaussian_fit(h, a, X)
      [] h.family = "GaussianMixture" -> GaussianMixture_fit(h, a, X)
      [] h.family = "VMF"             -> VMF_fit(h, a, X)

-----------------------------------------------------------------------------
(* The state: one detector instance and the last call made on it.          *)
(*   hp      the parameter attributes (family "none": no instance yet)     *)
(*   attrs   the fitted attributes                                          *)
(*   call    the last call: its name, its X (for a scoring or prediction   *)
(*           call, Absent for None) and its result                          *)
(*   hist    history of fit calls: whether fit was ever called, whether    *)
(*           one ever returned, whether the last one returned, and for     *)
(*           each attribute which fit call assigned it last: "ok" the      *)
(*           most recent fit that returned, "old" an earlier one that      *)
(*           returned, "failed" a call that raised, "none" no call;        *)
(*           lastX is the training matrix of the last fit call when it     *)
(*           returned, Absent when it raised                                *)
VARIABLES hp, attrs, call, hist

vars == <<hp, attrs, call, hist>>

Call(op, arg, ret) == [op |-> op, arg |-> arg, ret |-> ret]

Init ==
    /\ hp = [family |-> "none"]
    /\ attrs = NoAttrs
    /\ call = Call("none", Absent, Self)
    /\ hist = [called |-> FALSE, everOk |-> FALSE, lastOk |-> FALSE,
               prov |-> [f \in AttrNames |-> "none"], lastX |-> Absent]

Exists == hp.family # "none"

(* __init__: the parameters are stored and check_params runs; when it      *)
(* raises, the caller gets no instance                                      *)
Construct(params) ==
    /\ ~Exists
    /\ IF check_params(params)
       THEN hp' = params /\ call' = Call("__init__", Absent, Self)
       ELSE hp' = hp /\ call' = Call("__init__", Absent, Raise("ValueError"))
    /\ UNCHANGED <<attrs, hist>>

(* detector.fpr = v: parameters are plain public attributes *)
SetFpr(v) ==
    /\ Exists
    /\ hp' = [hp EXCEPT !.fpr = v]
    /\ call' = Call("setattr", Absent, Self)
    /\ UNCHANGED <<attrs, hist>>

NextProv(out) ==
    LET ok == ~Raised(out.ret)
    IN  [f \in AttrNames |->
            IF f \in out.wrote THEN (IF ok THEN "ok" ELSE "failed")
            ELSE IF ok /\ hist.prov[f] = "ok" THEN "old"
            ELSE hist.prov[f]]

NextHist(out, X) ==
    [called |-> TRUE,
     everOk |-> hist.everOk \/ ~Raised(out.ret),
     lastOk |-> ~Raised(out.ret),
     prov   |-> NextProv(out),
     lastX  |-> IF Raised(out.ret) THEN Absent ELSE Some(X)]

Fit(X) ==
    /\ Exists
    /\ \E out \in fit(hp, attrs, X) :
          /\ attrs' = out.attrs
          /\ call' = Call("fit", Absent, out.ret)
          /\ hist' = NextHist(out, X)
    /\ UNCHANGED hp

\* anomaly_score that stores what it computed in y_score_
AnomalyScore_caching(arg) ==
    /\ Exists
    /\ LET r == anomaly_score(hp, attrs, arg)
       IN  /\ call' = Call("anomaly_score", arg, r)
           /\ attrs' = IF Raised(r) THEN attrs
                       ELSE [attrs EXCEPT !.y_score_ = Some(r.val)]
    /\ UNCHANGED <<hp, hist>>

AnomalyScore(arg) ==
    /\ Exists
    /\ call' = Call("anomaly_score", arg, anomaly_score(hp, attrs, arg))
    /\ UNCHANGED <<hp, attrs, hist>>

FeatureWiseAnomalyScore(arg) ==
    /\ Exists /\ hp.family = "Gaussian"
    /\ call' = Call("feature_wise_anomaly_score", arg,
                    Gaussian_feature_wise_anomaly_score(hp, attrs, arg))
    /\ UNCHANGED <<hp, attrs, hist>>

Predict(X) ==
    /\ Exists
    /\ call' = Call("predict", Some(X), predict(hp, attrs, X))
    /\ UNCHANGED <<hp, attrs, hist>>

(* fit_predict: self.fit(X, y).predict(X) *)
FitPredict(X) ==
    /\ Exists
    /\ \E out \in fit(hp, attrs, X) :
          /\ attrs' = out.attrs
          /\ call' = Call("fit_predict", Some(X),
                          IF Raised(out.ret) THEN out.ret
                          ELSE predict(hp, out.attrs, X))
          /\ hist' = NextHist(out, X)
    /\ UNCHANGED hp

QueryArgs == {Absent} \cup {Some(X) : X \in QueryInputs}

Next ==
    \/ \E fam \in Families : \E params \in ParamsIn(fam) : Construct(params)
    \/ \E v \in FprIn : SetFpr(v)
    \/ \E X \in TrainInputs : Fit(X)
    \/ \E arg \in QueryArgs : AnomalyScore(arg)
    \/ \E arg \in QueryArgs : FeatureWiseAnomalyScore(arg)
    \/ \E X \in QueryInputs : Predict(X)
    \/ \E X \in TrainInputs : FitPredict(X)

Spec == Init /\ [][Next]_vars

-----------------------------------------------------------------------------
(* Two otherwise identical detectors of a percentile-calibrated family,    *)
(* fitted on the same training matrix: hp is the first, the second differs *)
(* in fpr alone.  FlaggedPair records the second fpr and how many training *)
(* rows each flags (in-sample score > threshold_).                          *)

PercentileFamilies == {"FastABOD", "KernelDensity", "GaussianMixture"}

\* a finer fpr grid inside [0, 1]
RateIn == {r \in {Rat(f, d) : f \in 0 .. FprDen + 2, d \in 1 .. FprDen + 2} :
              ~RGt(r, One)}

Flagged(a) ==
    Cardinality({i \in 1 .. Len(Get(a.y_score_)) :
                    RGt(Get(a.y_score_)[i], Get(a.threshold_))})

InitPair ==
    /\ hp \in {h \in UNION {ParamsIn(fam) : fam \in PercentileFamilies} :
                  check_params(h)}
    /\ attrs = NoAttrs
    /\ call = Call("none", Absent, Self)
    /\ hist = [called |-> FALSE, everOk |-> FALSE, lastOk |-> FALSE,
               prov |-> [f \in AttrNames |-> "none"], lastX |-> Absent]

FlaggedPair(X, fpr1, fpr2) ==
    /\ call.op = "none"
    /\ \E o1 \in fit([hp EXCEPT !.fpr = fpr1], NoAttrs, X) :
      \E o2 \in fit([hp EXCEPT !.fpr = fpr2], NoAttrs, X) :
        /\ ~Raised(o1.ret) /\ ~Raised(o2.ret)
        /\ hp' = [hp EXCEPT !.fpr = fpr1]
        /\ attrs' = o1.attrs
        /\ call' = Call("flagged", Some(fpr2),
                        Ok(<<Flagged(o1.attrs), Flagged(o2.attrs)>>))
        /\ hist' = NextHist(o1, X)

NextPair == \E X \in TrainInputs : \E fpr1, fpr2 \in RateIn : FlaggedPair(X, fpr1, fpr2)

SpecPair == InitPair /\ [][NextPair]_vars

-----------------------------------------------------------------------------
(* A FastABOD detector, constructed with any n_jobs its check_params lets   *)
(* through, fitted and then asked for scores of matrices of several rows.   *)

JobsIn == {-1} \cup (1 .. MaxJobs)

ScoreParams ==
    [family : {"FastABOD"}, fpr : {Zero}, n_jobs : JobsIn,
     n_neighbors : 2 .. MaxRows, p : {1}]

\* one more training row and neighbour than in Spec: with two neighbours
\* there is a single pair of neighbours and every score is -var = 0
ScoreTrainInputs ==
    {X \in SeqsUpTo(-1 .. MaxVal + 1, MaxRows + 1) :
        \A i \in 1 .. Len(X) - 1 : X[i] <= X[i + 1]}

ScoreQueryVals == {-2, 0, MaxVal + 3}

ScoreArgs ==
    {Absent} \cup {Some(X) : X \in SeqsUpTo(ScoreQueryVals, MaxQueryRows)}

InitScore ==
    /\ hp \in {h \in ScoreParams : check_params(h)}
    /\ attrs = NoAttrs
    /\ call = Call("__init__", Absent, Self)
    /\ hist = [called |-> FALSE, everOk |-> FALSE, lastOk |-> FALSE,
               prov |-> [f \in AttrNames |-> "none"], lastX |-> Absent]

NextScore ==
    \/ \E X \in ScoreTrainInputs : Fit(X)
    \/ \E arg \in ScoreArgs : AnomalyScore(arg)

SpecScore == InitScore /\ [][NextScore]_vars

-----------------------------------------------------------------------------
(* Properties *)

ScoringOps == {"anomaly_score", "predict"}
QueryOps   == {"anomaly_score", "feature_wise_anomaly_score", "predict"}
FitOps     == {"fit", "fit_predict"}

Binary(v) == \A i \in 1 .. Len(v) : v[i] \in {0, 1}

(* C1: on an instance on which fit was never called, anomaly_score(X),     *)
(* anomaly_score() and predict(X) raise NotFittedError, for every family.  *)
C1_NotFittedBeforeFit ==
    (Exists /\ ~hist.called /\ call.op \in ScoringOps)
        => call.ret.kind = "NotFittedError"

C1_Witness ==
    /\ Exists /\ ~hist.called /\ hp.family = "VMF"
    /\ call.op = "predict" /\ call.ret.kind = "NotFittedError"

(* C2: when the fit of fit_predict(X) has returned, predict(X) on the same *)
(* X returns a vector of 0/1 with one entry per row of X.                   *)
C2_PredictOnTrainingSet ==
    (call.op = "fit_predict" /\ hist.lastOk)
        => /\ call.ret.kind = "ok"
           /\ Len(call.ret.val) = Len(Get(call.arg))
           /\ Binary(call.ret.val)

(* C3: a fit call that raises leaves every fitted attribute as it was.     *)
C3_FailedFitChangesNothing ==
    [][(call'.op \in FitOps /\ ~hist'.lastOk) => attrs' = attrs]_vars

(* C4: while no fit call has returned, anomaly_score and predict raise     *)
(* NotFittedError.                                                          *)
C4_NotFittedUntilFitSucceeds ==
    (Exists /\ ~hist.everOk /\ call.op \in ScoringOps)
        => call.ret.kind = "NotFittedError"

(* C5: when predict(X) returns, row i is labelled 1 exactly when           *)
(* anomaly_score(X)[i] > threshold_, and the model that scored X and the   *)
(* threshold_ were both assigned by the most recent fit call that returned. *)
C5_PredictComparesWithLastFit ==
    (call.op = "predict" /\ call.ret.kind = "ok")
        => /\ LET sc == anomaly_score(hp, attrs, call.arg).val
              IN  /\ Len(call.ret.val) = Len(sc)
                  /\ \A i \in 1 .. Len(sc) :
                        call.ret.val[i] =
                            IF RGt(sc[i], Get(attrs.threshold_)) THEN 1 ELSE 0
           /\ hist.prov.model \in {"ok", "none"}
           /\ hist.prov.threshold_ = "ok"

(* C6: when the last fit call returned, anomaly_score() returns the stored *)
(* y_score_, which that fit assigned, one score per training row; for the  *)
(* families that score a given X it is what anomaly_score gives for the    *)
(* training matrix of that fit, for FastABOD what the training neighbour   *)
(* graph gives.                                                             *)
InSample(h, a, X) ==
    IF h.family = "FastABOD"
    THEN FastABOD_scores(h, Get(a.model), X, kneighborsNone(Get(a.model)).val)
    ELSE anomaly_score(h, a, Some(X))

InUnit(x) == ~RLt(x, Zero) /\ ~RGt(x, One)

InDomain(h) ==
    /\ InUnit(h.fpr)
    /\ h.family = "FastABOD" => h.n_neighbors > 1 /\ h.p >= 1
    /\ h.family = "KernelDensity" =>
          RGt(h.bandwidth, Zero) /\
          h.kernel \in {"gaussian", "tophat", "epanechnikov", "exponential",
                        "linear", "cosine"}
    /\ h.family = "Gaussian" =>
          InUnit(h.alpha) /\ h.max_iter > 0 /\ ~RLt(h.tol, Zero)
    /\ h.family = "GaussianMixture" =>
          /\ h.covariance_type \in {"full", "tied", "diag", "spherical"}
          /\ h.n_components > 0 /\ h.max_iter > 0 /\ ~RLt(h.tol, Zero)

C7_ConstructionValidates ==
    [][\A fam \in Families : \A params \in ParamsIn(fam) :
          Construct(params) =>
              IF InDomain(params)
              THEN hp' = params /\ call'.ret.kind = "ok"
              ELSE ~Exists' /\ call'.ret.kind = "ValueError"]_vars

C7_Witness ==
    /\ call.op = "__init__" /\ call.ret.kind = "ValueError" /\ ~Exists

(* C8: a fit call made while a parameter is outside its domain raises      *)
(* ValueError without assigning any fitted attribute.                       *)
C8_FitValidatesFirst ==
    [][(call'.op \in FitOps /\ ~InDomain(hp))
          => (call'.ret.kind = "ValueError" /\ attrs' = attrs)]_vars

(* C9: anomaly_score, feature_wise_anomaly_score and predict, returning or *)
(* raising, leave the parameters and every fitted attribute unchanged.     *)
C9_OnlyFitChangesState ==
    [][call'.op \in QueryOps => (hp' = hp /\ attrs' = attrs)]_vars

C9_Witness ==
    /\ call.op = "predict" /\ call.ret.kind = "ok"
    /\ hist.lastOk /\ 1 \in {call.ret.val[i] : i \in 1 .. Len(call.ret.val)}

(* C10 as stated: of two otherwise identical detectors fitted on the same  *)
(* training matrix, the one with the smaller fpr flags at least as many    *)
(* training rows.                                                           *)
C10_SmallerFprFlagsNoFewer ==
    (call.op = "flagged" /\ RLt(hp.fpr, Get(call.arg)))
        => call.ret.val[1] >= call.ret.val[2]

(* C10 amended: the one with the smaller fpr flags at most as many training *)
(* rows.                                                                    *)
C10_SmallerFprFlagsNoMore ==
    (call.op = "flagged" /\ RLt(hp.fpr, Get(call.arg)))
        => call.ret.val[1] <= call.ret.val[2]

C10_Witness ==
    /\ call.op = "flagged" /\ RLt(hp.fpr, Get(call.arg))
    /\ call.ret.val[1] < call.ret.val[2]

(* C11: for a VMF detector constructed with assume_normalized=True, fit(X)  *)
(* on a non-empty X returns the instance with mean_direction_, y_score_ and *)
(* threshold_ stored, and anomaly_score(X) and predict(X) then do not raise *)
(* NotFittedError.                                                          *)
C11_FitWithoutNormalization ==
    [][\A X \in TrainInputs :
          (Fit(X) /\ hp.family = "VMF" /\ hp.assume_normalized /\ X # << >>)
              => /\ call'.ret = Self
                 /\ Has(attrs'.mean_direction_)
                 /\ Has(attrs'.y_score_)
                 /\ Has(attrs'.threshold_)
                 /\ anomaly_score(hp, attrs', Some(X)).kind # "NotFittedError"
                 /\ predict(hp, attrs', X).kind # "NotFittedError"]_vars

(* C12: a FastABOD detector whose last fit returned raises ValueError from  *)
(* anomaly_score(X) when a row of X, at any position, equals a training    *)
(* row, and returns one score per row when no row of X equals one of its   *)
(* selected neighbours.  anomaly_score() on the stored training set, once  *)
(* the neighbours and the slices are there, raises ValueError only if the  *)
(* training set has two equal rows.                                         *)
HasDuplicates(T) == \E i, j \in 1 .. Len(T) : i < j /\ T[i] = T[j]

Coincides(X, T) == \E r \in 1 .. Len(X) : \E j \in 1 .. Len(T) : X[r] = T[j]

SelectedCoincide(X, ind, T) ==
    \E r \in 1 .. Len(X) : \E a \in 1 .. Len(ind[r]) : T[ind[r][a]] = X[r]

C12_TrainingRowsAreRejected ==
    (hp.family = "FastABOD" /\ call.op = "anomaly_score" /\ Has(attrs.model)) =>
        LET knn == Get(attrs.model)
            T   == knn.fit_X
        IN  /\ (hist.lastOk /\ call.arg # Absent /\ Get(call.arg) # << >>) =>
                  LET X   == Get(call.arg)
                      ind == kneighbors(knn, X).val
                  IN  /\ Coincides(X, T) => call.ret.kind = "ValueError"
                      /\ ~SelectedCoincide(X, ind, T) =>
                            (call.ret.kind = "ok" /\ Len(call.ret.val) = Len(X))
            /\ (/\ call.arg = Absent
                /\ ~Raised(kneighborsNone(knn))
                /\ ~Raised(gen_even_slices(Len(T), hp.n_jobs))
                /\ call.ret.kind = "ValueError") => HasDuplicates(T)

C12_Witness ==
    /\ hp.family = "FastABOD" /\ call.op = "anomaly_score" /\ hist.lastOk
    /\ call.arg # Absent /\ Len(Get(call.arg)) = 2
    /\ ~Coincides(<<Get(call.arg)[1]>>, Get(attrs.model).fit_X)
    /\ Coincides(<<Get(call.arg)[2]>>, Get(attrs.model).fit_X)
    /\ call.ret.kind = "ValueError"

(* C13: for every n_jobs the constructor accepts, anomaly_score gives what *)
(* scoring the rows one by one gives: entry i is the score of row i, one   *)
(* entry per row, and it raises ValueError exactly when some row has a     *)
(* neighbour equal to it.                                                   *)
RowByRow(X, ind, T) ==
    LET rows == [r \in 1 .. Len(X) |-> abof(<<X[r]>>, <<ind[r]>>, T)]
    IN  IF \E r \in 1 .. Len(X) : Raised(rows[r]) THEN Raise("ValueError")
        ELSE Ok(Negate([r \in 1 .. Len(X) |-> rows[r].val[1]]))

C13_SlicesPreserveRows ==
    (hp.family = "FastABOD" /\ call.op = "anomaly_score" /\ Has(attrs.model)) =>
        LET knn == Get(attrs.model)
            T   == knn.fit_X
        IN  /\ (call.arg # Absent /\ Get(call.arg) # << >>
                    /\ ~Raised(kneighbors(knn, Get(call.arg)))) =>
                  call.ret = RowByRow(Get(call.arg),
                                      kneighbors(knn, Get(call.arg)).val, T)
            /\ (call.arg = Absent /\ ~Raised(kneighborsNone(knn))) =>
                  call.ret = RowByRow(T, kneighborsNone(knn).val, T)

====
